---- MODULE Spec2Model ----
(***************************************************************************)
(* Model of models/result.go: the per-target Result record, its status     *)
(* transitions (Handle* methods), the campaign event log they append to,   *)
(* and the persisted row they save.  Several workers each hold their own   *)
(* in-memory copy of the row (GetResult) and call handlers on it; the      *)
(* persisted row and the event log are the only shared state.              *)
(***************************************************************************)
EXTENDS Integers, Sequences, FiniteSets, TLC

\* ---------------------------------------------------------------- bounds
\* Number of AddEvent calls explored with one worker (each stamps a fresh
\* timestamp), and with all the workers running concurrently.
MaxAppends == 3
MaxConcAppends == 2
MaxGeoAppends == 1
MaxGeoConcAppends == 1

\* The concurrent callers (web handlers, mailer), each with its own copy.
Procs == {"w1", "w2"}

\* Values MarkBackoff may be given as the next send time.
SendDates == {7}

\* ------------------------------------------------------- program constants
\* Event kinds and statuses (declared in models/campaign.go, models/models.go).
STATUS_QUEUED == "queued"
EVENT_SENT == "sent"
EVENT_SENDING_ERROR == "sending-error"
ERROR == "sending-error"
STATUS_RETRY == "retry"
EVENT_OPENED == "opened"
EVENT_CLICKED == "clicked"
EVENT_DATA_SUBMIT == "submitted-data"
EVENT_REPORTED == "reported"

\* time.Time{} (the zero time) and the error values a handler can return.
ZeroTime == 0
Nil == "nil"
ErrRecordNotFound == "NotFound"
ErrMarshal == "MarshalError"
ErrSave == "PersistenceError"
ErrRand == "RandError"
ErrQuery == "QueryError"
ErrNilIP == "NilIPError"
ErrLookup == "LookupError"

\* The detail payloads a caller may pass: nil, one that json.Marshal encodes,
\* one that it rejects.
NilDetails == "none"
GoodDetails == "ok"
BadDetails == "bad"

TargetEmail == "t@example.com"

\* ---------------------------------------------------------- identifiers
\* GenerateId's alphabet and key length.
alphaNum ==
    <<"a", "b", "c", "d", "e", "f", "g", "h", "i", "j", "k", "l", "m",
      "n", "o", "p", "q", "r", "s", "t", "u", "v", "w", "x", "y", "z",
      "A", "B", "C", "D", "E", "F", "G", "H", "I", "J", "K", "L", "M",
      "N", "O", "P", "Q", "R", "S", "T", "U", "V", "W", "X", "Y", "Z",
      "0", "1", "2", "3", "4", "5", "6", "7", "8", "9">>

KeyLen == 7

\* What crypto/rand may deliver for one key: KeyLen numbers below
\* len(alphaNum).  Three of the 62^7 deliveries are explored.
RandDraws ==
    { [i \in 1..KeyLen |-> 0],
      [i \in 1..KeyLen |-> Len(alphaNum) - 1],
      <<0, 26, 52, 1, 27, 53, 61>> }

\* k[i] = alphaNum[idx.Int64()] for each i; string(k).
KeyOf(draw) ==
    [i \in 1..KeyLen |-> alphaNum[draw[i] + 1]]

AllIds == {KeyOf(d) : d \in RandDraws}

\* The r_id of the row that exists from the start.
ExistingId == KeyOf([i \in 1..KeyLen |-> 0])

\* ------------------------------------------------------------ geolocation
\* The addresses UpdateGeo is called with: one the dataset has a record
\* for, one it has none for, one that is no IP address.
KnownAddr == "8.8.8.8"
UnknownAddr == "10.0.0.1"
BadAddr == "not-an-ip"
Addrs == {KnownAddr, UnknownAddr, BadAddr}

\* net.ParseIP's nil.
NilIP == "nil-ip"

\* The dataset's records (mmCity.GeoPoint), by address.
ZeroCity == [Latitude |-> 0, Longitude |-> 0]

GeoPoints ==
    [a \in {KnownAddr} |-> [Latitude |-> 37, Longitude |-> -122]]

\* type Result struct: the fields the transitions read or write.
Result ==
    [RId : {<<>>} \cup AllIds,
     Email : {"", TargetEmail},
     Status : {"", STATUS_QUEUED, EVENT_SENT, ERROR, STATUS_RETRY,
               EVENT_OPENED, EVENT_CLICKED, EVENT_DATA_SUBMIT},
     Reported : BOOLEAN,
     SendDate : {ZeroTime} \cup SendDates,
     ModifiedDate : 0..(MaxAppends + 1),
     IP : {""} \cup Addrs,
     Latitude : {0} \cup {GeoPoints[a].Latitude : a \in DOMAIN GeoPoints},
     Longitude : {0} \cup {GeoPoints[a].Longitude : a \in DOMAIN GeoPoints}]

\* Result{}: Go's zero value, what a worker holds before GetResult.
ZeroResult ==
    [RId |-> <<>>, Email |-> "", Status |-> "", Reported |-> FALSE,
     SendDate |-> ZeroTime, ModifiedDate |-> ZeroTime,
     IP |-> "", Latitude |-> 0, Longitude |-> 0]

\* The row as inserted when the campaign is launched.
NewResult ==
    [RId |-> ExistingId, Email |-> TargetEmail, Status |-> STATUS_QUEUED,
     Reported |-> FALSE, SendDate |-> ZeroTime, ModifiedDate |-> ZeroTime,
     IP |-> "", Latitude |-> 0, Longitude |-> 0]

NoEvent == [Email |-> "", Message |-> "", Time |-> ZeroTime]

\* No GenerateId query, no UpdateGeo call made yet.
NoQuery == [cand |-> <<>>, answer |-> "none"]
NoLookup == [addr |-> "", open |-> "none", lookup |-> "none", city |-> ZeroCity]

VARIABLES
    db,       \* the persisted results row
    campaign, \* whether the owning campaign (CampaignId, UserId) exists
    events,   \* the campaign's event log
    now,      \* the clock AddEvent stamps events with
    pc,       \* each worker's position
    r,        \* each worker's in-memory Result
    op,       \* the handler each worker last called
    arg,      \* the sendDate argument of that call (HandleEmailBackoff)
    pre,      \* the worker's Result when that call began
    ev,       \* the *Event createEvent returned to that call
    ret,      \* the error that call returned (Nil: success)
    added,    \* what AddEvent did in that call: "none", "ok", "failed"
    saved,    \* what db.Save did in that call: "none", "ok", "failed"
    active,   \* the workers that run
    limit,    \* the number of AddEvent calls explored
    rids,     \* the r_id column of the results table, one entry per row
    gen,      \* each worker's last GenerateId query: candidate and answer
    geo       \* each worker's last UpdateGeo call: address, open, lookup

vars == <<db, campaign, events, now, pc, r, op, arg, pre, ev, ret, added, saved,
          active, limit, rids, gen, geo>>

Start ==
    /\ db = NewResult
    /\ campaign = TRUE
    /\ events = <<>>
    /\ now = 0
    /\ pc = [p \in Procs |-> "idle"]
    /\ r = [p \in Procs |-> ZeroResult]
    /\ op = [p \in Procs |-> "none"]
    /\ arg = [p \in Procs |-> ZeroTime]
    /\ pre = [p \in Procs |-> ZeroResult]
    /\ ev = [p \in Procs |-> NoEvent]
    /\ ret = [p \in Procs |-> Nil]
    /\ added = [p \in Procs |-> "none"]
    /\ saved = [p \in Procs |-> "none"]
    /\ rids = <<ExistingId>>
    /\ gen = [p \in Procs |-> NoQuery]
    /\ geo = [p \in Procs |-> NoLookup]

\* One worker calling handlers one after the other on its Result.
Init ==
    /\ Start
    /\ active = {"w1"}
    /\ limit = MaxAppends

\* Every worker, each on its own copy of the same row.
InitConc ==
    /\ Start
    /\ active = Procs
    /\ limit = MaxConcAppends

\* ------------------------------------------------------------ collaborators
\* GetResult: load the row into the caller's own Result.
GetResult(p) ==
    /\ pc[p] \in {"idle", "ready"}
    /\ r' = [r EXCEPT ![p] = db]
    /\ pc' = [pc EXCEPT ![p] = "ready"]
    /\ UNCHANGED <<db, campaign, events, now, op, arg, pre, ev, ret, added, saved, active, limit, rids, gen, geo>>

\* The owning campaign is deleted (or is not this user's): from then on
\* GetCampaign(r.CampaignId, r.UserId) finds nothing.
DeleteCampaign ==
    /\ campaign
    /\ campaign' = FALSE
    /\ UNCHANGED <<db, events, now, pc, r, op, arg, pre, ev, ret, added, saved, active, limit, rids, gen, geo>>

\* GetCampaign(campaignId, userId): the error it returns.
GetCampaign ==
    IF campaign THEN Nil ELSE ErrRecordNotFound

\* Campaign.AddEvent: stamp the event and store it; the store may fail, and
\* then the log is unchanged.
AddEvent(p, e) ==
    /\ now' = now + 1
    /\ \/ /\ events' = Append(events, [e EXCEPT !.Time = now'])
          /\ ev' = [ev EXCEPT ![p] = [e EXCEPT !.Time = now']]
          /\ added' = [added EXCEPT ![p] = "ok"]
       \/ /\ UNCHANGED events
          /\ ev' = [ev EXCEPT ![p] = [e EXCEPT !.Time = now']]
          /\ added' = [added EXCEPT ![p] = "failed"]

\* The lookup's error not returned.
createEventNoLookup(p, status, details) ==
    IF details = BadDetails
    THEN /\ ret' = [ret EXCEPT ![p] = ErrMarshal]
         /\ ev' = [ev EXCEPT ![p] = NoEvent]
         /\ added' = [added EXCEPT ![p] = "none"]
         /\ UNCHANGED <<events, now>>
    ELSE /\ ret' = [ret EXCEPT ![p] = Nil]
         /\ AddEvent(p, [Email |-> r[p].Email, Message |-> status, Time |-> ZeroTime])

\* createEvent: look the campaign up, encode the details, add the event.
\* The value AddEvent returns is dropped: createEvent returns (e, nil).
createEvent(p, status, details) ==
    IF GetCampaign # Nil
    THEN /\ ret' = [ret EXCEPT ![p] = GetCampaign]
         /\ ev' = [ev EXCEPT ![p] = NoEvent]
         /\ added' = [added EXCEPT ![p] = "none"]
         /\ UNCHANGED <<events, now>>
    ELSE IF details = BadDetails
    THEN /\ ret' = [ret EXCEPT ![p] = ErrMarshal]
         /\ ev' = [ev EXCEPT ![p] = NoEvent]
         /\ added' = [added EXCEPT ![p] = "none"]
         /\ UNCHANGED <<events, now>>
    ELSE /\ ret' = [ret EXCEPT ![p] = Nil]
         /\ AddEvent(p, [Email |-> r[p].Email, Message |-> status, Time |-> ZeroTime])

\* The save's error not returned.
SaveErrorDropped(p, rec) ==
    /\ r' = [r EXCEPT ![p] = rec]
    /\ pc' = [pc EXCEPT ![p] = "done"]
    /\ ret' = [ret EXCEPT ![p] = Nil]
    /\ \/ /\ db' = rec
          /\ saved' = [saved EXCEPT ![p] = "ok"]
       \/ /\ UNCHANGED db
          /\ saved' = [saved EXCEPT ![p] = "failed"]
    /\ UNCHANGED <<campaign, events, now, op, arg, pre, ev, added, active, limit, rids, gen, geo>>

\* db.Save(r): write every field of the caller's Result to the row.
Save(p, rec) ==
    /\ r' = [r EXCEPT ![p] = rec]
    /\ pc' = [pc EXCEPT ![p] = "done"]
    /\ \/ /\ db' = rec
          /\ ret' = [ret EXCEPT ![p] = Nil]
          /\ saved' = [saved EXCEPT ![p] = "ok"]
       \/ /\ UNCHANGED db
          /\ ret' = [ret EXCEPT ![p] = ErrSave]
          /\ saved' = [saved EXCEPT ![p] = "failed"]
    /\ UNCHANGED <<campaign, events, now, op, arg, pre, ev, added, active, limit, rids, gen, geo>>

\* return nil before any assignment (the guarded early return).
ReturnNil(p) ==
    /\ pc' = [pc EXCEPT ![p] = "done"]
    /\ ret' = [ret EXCEPT ![p] = Nil]
    /\ UNCHANGED <<db, campaign, events, now, r, op, arg, pre, ev, added, saved, active, limit, rids, gen, geo>>

\* The first half of every handler: event, err := r.createEvent(...);
\* if err != nil { return err }.
Enter(p, h, status, details, sendDate) ==
    /\ pc[p] = "ready"
    /\ now < limit
    /\ createEvent(p, status, details)
    /\ op' = [op EXCEPT ![p] = h]
    /\ arg' = [arg EXCEPT ![p] = sendDate]
    /\ pre' = [pre EXCEPT ![p] = r[p]]
    /\ saved' = [saved EXCEPT ![p] = "none"]
    /\ pc' = [pc EXCEPT ![p] = IF ret'[p] = Nil THEN h ELSE "done"]
    /\ UNCHANGED <<db, campaign, r, active, limit, rids, gen, geo>>

\* The caller takes the returned error and goes on with its Result; the
\* record of the finished call is dropped.
Return(p) ==
    /\ pc[p] = "done"
    /\ pc' = [pc EXCEPT ![p] = "ready"]
    /\ op' = [op EXCEPT ![p] = "none"]
    /\ arg' = [arg EXCEPT ![p] = ZeroTime]
    /\ pre' = [pre EXCEPT ![p] = ZeroResult]
    /\ ev' = [ev EXCEPT ![p] = NoEvent]
    /\ ret' = [ret EXCEPT ![p] = Nil]
    /\ added' = [added EXCEPT ![p] = "none"]
    /\ saved' = [saved EXCEPT ![p] = "none"]
    /\ gen' = [gen EXCEPT ![p] = NoQuery]
    /\ geo' = [geo EXCEPT ![p] = NoLookup]
    /\ UNCHANGED <<db, campaign, events, now, r, active, limit, rids>>

\* ---------------------------------------------------------------- handlers
SentRecordGuarded(rec, e) ==
    IF rec.Status \in {EVENT_OPENED, EVENT_CLICKED, EVENT_DATA_SUBMIT}
    THEN rec
    ELSE [rec EXCEPT !.Status = EVENT_SENT, !.ModifiedDate = e.Time]

SentRecord(rec, e) ==
    [rec EXCEPT !.Status = EVENT_SENT, !.ModifiedDate = e.Time]

HandleEmailSent(p) ==
    \/ Enter(p, "HandleEmailSent", EVENT_SENT, NilDetails, ZeroTime)
    \/ /\ pc[p] = "HandleEmailSent"
       /\ Save(p, SentRecord(r[p], ev[p]))

ErrorRecord(rec, e) ==
    [rec EXCEPT !.Status = ERROR, !.ModifiedDate = e.Time]

HandleEmailError(p) ==
    \/ Enter(p, "HandleEmailError", EVENT_SENDING_ERROR, GoodDetails, ZeroTime)
    \/ /\ pc[p] = "HandleEmailError"
       /\ Save(p, ErrorRecord(r[p], ev[p]))

BackoffRecordAsError(rec, e, sendDate) ==
    [rec EXCEPT !.Status = ERROR, !.SendDate = sendDate,
                !.ModifiedDate = e.Time]

BackoffRecord(rec, e, sendDate) ==
    [rec EXCEPT !.Status = STATUS_RETRY, !.SendDate = sendDate,
                !.ModifiedDate = e.Time]

HandleEmailBackoff(p) ==
    \/ \E sendDate \in SendDates :
          Enter(p, "HandleEmailBackoff", EVENT_SENDING_ERROR, GoodDetails, sendDate)
    \/ /\ pc[p] = "HandleEmailBackoff"
       /\ Save(p, BackoffRecord(r[p], ev[p], arg[p]))

OpenedGuardSubmitOnly(status) ==
    status = EVENT_DATA_SUBMIT

\* "Don't update the status if the user already clicked the link or
\* submitted data to the campaign".
OpenedGuard(status) ==
    status = EVENT_CLICKED \/ status = EVENT_DATA_SUBMIT

OpenedRecordNoDate(rec, e) ==
    [rec EXCEPT !.Status = EVENT_OPENED]

OpenedRecord(rec, e) ==
    [rec EXCEPT !.Status = EVENT_OPENED, !.ModifiedDate = e.Time]

\* The guard tested before the event is created.
HandleEmailOpenedGuardFirst(p) ==
    \/ /\ pc[p] = "ready"
       /\ now < limit
       /\ OpenedGuard(r[p].Status)
       /\ pc' = [pc EXCEPT ![p] = "done"]
       /\ op' = [op EXCEPT ![p] = "HandleEmailOpened"]
       /\ pre' = [pre EXCEPT ![p] = r[p]]
       /\ ret' = [ret EXCEPT ![p] = Nil]
       /\ UNCHANGED <<db, campaign, events, now, r, arg, ev, added, saved, active, limit, rids, gen, geo>>
    \/ /\ ~OpenedGuard(r[p].Status)
       /\ \E details \in {GoodDetails, BadDetails} :
            Enter(p, "HandleEmailOpened", EVENT_OPENED, details, ZeroTime)
    \/ /\ pc[p] = "HandleEmailOpened"
       /\ Save(p, OpenedRecord(r[p], ev[p]))

HandleEmailOpened(p) ==
    \/ \E details \in {GoodDetails, BadDetails} :
          Enter(p, "HandleEmailOpened", EVENT_OPENED, details, ZeroTime)
    \/ /\ pc[p] = "HandleEmailOpened"
       /\ IF OpenedGuard(r[p].Status)
          THEN ReturnNil(p)
          ELSE Save(p, OpenedRecord(r[p], ev[p]))

ClickedGuardNever(status) ==
    FALSE

\* "Don't update the status if the user has already submitted data via the
\* landing page form".
ClickedGuard(status) ==
    status = EVENT_DATA_SUBMIT

ClickedRecord(rec, e) ==
    [rec EXCEPT !.Status = EVENT_CLICKED, !.ModifiedDate = e.Time]

HandleClickedLink(p) ==
    \/ \E details \in {GoodDetails, BadDetails} :
          Enter(p, "HandleClickedLink", EVENT_CLICKED, details, ZeroTime)
    \/ /\ pc[p] = "HandleClickedLink"
       /\ IF ClickedGuard(r[p].Status)
          THEN ReturnNil(p)
          ELSE Save(p, ClickedRecord(r[p], ev[p]))

SubmitRecord(rec, e) ==
    [rec EXCEPT !.Status = EVENT_DATA_SUBMIT, !.ModifiedDate = e.Time]

HandleFormSubmit(p) ==
    \/ \E details \in {GoodDetails, BadDetails} :
          Enter(p, "HandleFormSubmit", EVENT_DATA_SUBMIT, details, ZeroTime)
    \/ /\ pc[p] = "HandleFormSubmit"
       /\ Save(p, SubmitRecord(r[p], ev[p]))

ReportRecordAsStatus(rec, e) ==
    [rec EXCEPT !.Status = EVENT_REPORTED, !.Reported = TRUE,
                !.ModifiedDate = e.Time]

ReportRecord(rec, e) ==
    [rec EXCEPT !.Reported = TRUE, !.ModifiedDate = e.Time]

HandleEmailReport(p) ==
    \/ \E details \in {GoodDetails, BadDetails} :
          Enter(p, "HandleEmailReport", EVENT_REPORTED, details, ZeroTime)
    \/ /\ pc[p] = "HandleEmailReport"
       /\ Save(p, ReportRecord(r[p], ev[p]))

Next ==
    \/ DeleteCampaign
    \/ \E p \in active : GetResult(p)
    \/ \E p \in active : Return(p)
    \/ \E p \in active : HandleEmailSent(p)
    \/ \E p \in active : HandleEmailError(p)
    \/ \E p \in active : HandleEmailBackoff(p)
    \/ \E p \in active : HandleEmailOpened(p)
    \/ \E p \in active : HandleClickedLink(p)
    \/ \E p \in active : HandleFormSubmit(p)
    \/ \E p \in active : HandleEmailReport(p)

Spec == Init /\ [][Next]_vars

\* ------------------------------------------------------------- GenerateId
\* db.Table("results").Where("r_id=?", id).First(&Result{}).Error: nil when
\* a row has the id, ErrRecordNotFound when none has, or the query's error.
First(id) ==
    {IF \E i \in 1..Len(rids) : rids[i] = id THEN Nil ELSE ErrRecordNotFound}
        \cup {ErrQuery}

BreaksOnFound(err) ==
    err = Nil

\* if err == gorm.ErrRecordNotFound { break }
Breaks(err) ==
    err = ErrRecordNotFound

\* GenerateId, one pass of its loop in each step: draw the key (or return
\* rand's error), assign it to r.RId, query the table, break or go round.
GenerateId(p) ==
    /\ pc[p] \in {"idle", "GenerateId"}
    /\ op' = [op EXCEPT ![p] = "GenerateId"]
    /\ \/ /\ ret' = [ret EXCEPT ![p] = ErrRand]
          /\ pc' = [pc EXCEPT ![p] = "done"]
          /\ UNCHANGED <<r, gen>>
       \/ \E draw \in RandDraws :
             /\ r' = [r EXCEPT ![p].RId = KeyOf(draw)]
             /\ \E err \in First(KeyOf(draw)) :
                   /\ gen' = [gen EXCEPT ![p] = [cand |-> KeyOf(draw), answer |-> err]]
                   /\ IF Breaks(err)
                      THEN /\ pc' = [pc EXCEPT ![p] = "done"]
                           /\ ret' = [ret EXCEPT ![p] = Nil]
                      ELSE /\ pc' = [pc EXCEPT ![p] = "GenerateId"]
                           /\ UNCHANGED ret
    /\ UNCHANGED <<db, campaign, events, now, arg, pre, ev, added, saved,
                   active, limit, rids, geo>>

InsertResultUnchecked(p) ==
    /\ pc[p] = "done" /\ op[p] = "GenerateId" /\ ret[p] = Nil
    /\ rids' = Append(rids, r[p].RId)
    /\ pc' = [pc EXCEPT ![p] = "idle"]
    /\ r' = [r EXCEPT ![p] = ZeroResult]
    /\ op' = [op EXCEPT ![p] = "none"]
    /\ gen' = [gen EXCEPT ![p] = NoQuery]
    /\ UNCHANGED <<db, campaign, events, now, arg, pre, ev, ret, added, saved,
                   active, limit, geo>>

\* The caller inserts the new row; the table's uniqueness constraint on r_id
\* rejects a duplicate.  Either way the caller starts on its next Result.
InsertResult(p) ==
    /\ pc[p] = "done" /\ op[p] = "GenerateId" /\ ret[p] = Nil
    /\ IF \E i \in 1..Len(rids) : rids[i] = r[p].RId
       THEN UNCHANGED rids
       ELSE rids' = Append(rids, r[p].RId)
    /\ pc' = [pc EXCEPT ![p] = "idle"]
    /\ r' = [r EXCEPT ![p] = ZeroResult]
    /\ op' = [op EXCEPT ![p] = "none"]
    /\ gen' = [gen EXCEPT ![p] = NoQuery]
    /\ UNCHANGED <<db, campaign, events, now, arg, pre, ev, ret, added, saved,
                   active, limit, geo>>

\* The caller gives up the Result whose GenerateId returned an error.
AbandonResult(p) ==
    /\ pc[p] = "done" /\ op[p] = "GenerateId" /\ ret[p] # Nil
    /\ pc' = [pc EXCEPT ![p] = "idle"]
    /\ r' = [r EXCEPT ![p] = ZeroResult]
    /\ op' = [op EXCEPT ![p] = "none"]
    /\ ret' = [ret EXCEPT ![p] = Nil]
    /\ gen' = [gen EXCEPT ![p] = NoQuery]
    /\ UNCHANGED <<db, campaign, events, now, arg, pre, ev, added, saved,
                   active, limit, rids, geo>>

\* Workers creating records concurrently.
InitGen ==
    /\ Start
    /\ active = Procs
    /\ limit = 0

NextGen ==
    \/ \E p \in active : GenerateId(p)
    \/ \E p \in active : InsertResult(p)
    \/ \E p \in active : AbandonResult(p)

SpecGen == InitGen /\ [][NextGen]_vars

\* A worker inside GenerateId keeps running.
SpecGenFair ==
    InitGen /\ [][NextGen]_vars /\ \A p \in Procs : WF_vars(GenerateId(p))

SpecConc == InitConc /\ [][Next]_vars

\* -------------------------------------------------------------- UpdateGeo
\* net.ParseIP(addr): nil for a string that is not an IP address.
ParseIP(addr) ==
    IF addr = BadAddr THEN NilIP ELSE addr

\* mmdb.Lookup(ip, &city): an error for a nil IP or a failed read; for an
\* address with no record the error is nil and city is left as it was.
Lookup(ip) ==
    IF ip = NilIP
    THEN {[err |-> ErrNilIP, city |-> ZeroCity]}
    ELSE {[err |-> Nil,
           city |-> IF ip \in DOMAIN GeoPoints THEN GeoPoints[ip] ELSE ZeroCity],
          [err |-> ErrLookup, city |-> ZeroCity]}

\* log.Fatal(err): the process exits, with every worker in it.
Fatal(p, addr) ==
    /\ pc' = [q \in Procs |-> "exited"]
    /\ geo' = [geo EXCEPT ![p] = [NoLookup EXCEPT !.addr = addr, !.open = "failed"]]
    /\ UNCHANGED ret

LookupErrorIgnored(p, addr, res) ==
    /\ geo' = [geo EXCEPT ![p] =
                  [addr |-> addr, open |-> "ok", lookup |-> res.err, city |-> res.city]]
    /\ pc' = [pc EXCEPT ![p] = "UpdateGeo"]
    /\ UNCHANGED ret

\* err = mmdb.Lookup(ip, &city); if err != nil { return err }
AfterLookup(p, addr, res) ==
    /\ geo' = [geo EXCEPT ![p] =
                  [addr |-> addr, open |-> "ok", lookup |-> res.err, city |-> res.city]]
    /\ IF res.err # Nil
       THEN /\ pc' = [pc EXCEPT ![p] = "done"]
            /\ ret' = [ret EXCEPT ![p] = res.err]
       ELSE /\ pc' = [pc EXCEPT ![p] = "UpdateGeo"]
            /\ UNCHANGED ret

\* UpdateGeo up to the lookup: open the dataset, parse addr, look it up.
UpdateGeo(p) ==
    /\ pc[p] = "ready"
    /\ op' = [op EXCEPT ![p] = "UpdateGeo"]
    /\ pre' = [pre EXCEPT ![p] = r[p]]
    /\ \E addr \in Addrs :
          \/ Fatal(p, addr)
          \/ \E res \in Lookup(ParseIP(addr)) : AfterLookup(p, addr, res)
    /\ UNCHANGED <<db, campaign, events, now, r, arg, ev, added, saved,
                   active, limit, rids, gen>>

\* The record with the lookup's result assigned.
GeoRecord(rec, addr, city) ==
    [rec EXCEPT !.IP = addr,
                !.Latitude = city.Latitude,
                !.Longitude = city.Longitude]

\* UpdateGeo after a lookup without error: assign and save.
UpdateGeoSave(p) ==
    /\ pc[p] = "UpdateGeo"
    /\ Save(p, GeoRecord(r[p], geo[p].addr, geo[p].city))

\* One worker calling handlers and UpdateGeo on its Result.
InitGeo ==
    /\ Start
    /\ active = {"w1"}
    /\ limit = MaxGeoAppends

\* Every worker, each on its own copy of the same row.
InitGeoConc ==
    /\ Start
    /\ active = Procs
    /\ limit = MaxGeoConcAppends

NextGeo ==
    \/ Next
    \/ \E p \in active : UpdateGeo(p)
    \/ \E p \in active : UpdateGeoSave(p)

SpecGeo == InitGeo /\ [][NextGeo]_vars

SpecGeoConc == InitGeoConc /\ [][NextGeo]_vars

\* ------------------------------------------------------------- vocabulary
\* The funnel order queued < sent < opened < clicked < submitted-data.
Funnel ==
    <<STATUS_QUEUED, EVENT_SENT, EVENT_OPENED, EVENT_CLICKED, EVENT_DATA_SUBMIT>>

FunnelRank(status) ==
    CHOOSE i \in 1..Len(Funnel) : Funnel[i] = status

InFunnel(status) ==
    \E i \in 1..Len(Funnel) : Funnel[i] = status

\* a is an earlier funnel stage than b.
Earlier(a, b) ==
    InFunnel(a) /\ InFunnel(b) /\ FunnelRank(a) < FunnelRank(b)

\* Worker p's call has returned and its record is still at hand.
Done(p) == pc[p] = "done"

\* The step in which p calls a handler (createEvent runs in it).
EnterStep(p) == pc[p] = "ready" /\ pc'[p] # "ready"

\* The step in which p's handler, past createEvent, runs to its return.
FinishStep(p) == pc[p] \notin {"idle", "ready", "done"} /\ pc'[p] = "done"

\* createEvent returned an event to p's call (err == nil).
Created(p) == added[p] # "none"

InLog(e) == \E i \in 1..Len(events) : events[i] = e

CountKind(kind) == Cardinality({i \in 1..Len(events) : events[i].Message = kind})

\* ------------------------------------------------------------------- C1
\* C1 as stated: no transition, MarkSent included, leaves the record at an
\* earlier funnel stage than the one it had when the call began.
C1_NoTransitionRegresses ==
    \A p \in Procs : Done(p) => ~Earlier(r[p].Status, pre[p].Status)

\* C1 (amended): no transition other than MarkSent leaves the record at an
\* earlier funnel stage than it had when the call began; MarkOpened at
\* clicked or submitted-data and MarkClicked at submitted-data leave the
\* status as it was and issue no save.
C1_GuardedTransitionsNeverRegress ==
    \A p \in Procs :
        Done(p) =>
            /\ op[p] # "HandleEmailSent" => ~Earlier(r[p].Status, pre[p].Status)
            /\ ( /\ op[p] = "HandleEmailOpened"
                 /\ pre[p].Status \in {EVENT_CLICKED, EVENT_DATA_SUBMIT} )
               => r[p].Status = pre[p].Status /\ saved[p] = "none"
            /\ (op[p] = "HandleClickedLink" /\ pre[p].Status = EVENT_DATA_SUBMIT)
               => r[p].Status = pre[p].Status /\ saved[p] = "none"

C1_Witness ==
    \E p \in Procs :
        /\ Done(p) /\ op[p] = "HandleEmailOpened" /\ Created(p)
        /\ pre[p].Status = EVENT_CLICKED
        /\ r[p].Status = EVENT_CLICKED

\* ------------------------------------------------------------------- C2
\* C2: a MarkOpened whose createEvent succeeded leaves the status unchanged
\* when it was clicked or submitted-data and sets it to opened otherwise; a
\* MarkClicked leaves it unchanged when it was submitted-data and sets it to
\* clicked otherwise; in both the guarded and the unguarded case the event
\* AddEvent stored is an opened (resp. clicked) event for the record's email.
C2_OpenedClickedStatus ==
    \A p \in Procs :
        (Done(p) /\ Created(p)) =>
            /\ op[p] = "HandleEmailOpened" =>
                /\ r[p].Status =
                      IF pre[p].Status \in {EVENT_CLICKED, EVENT_DATA_SUBMIT}
                      THEN pre[p].Status ELSE EVENT_OPENED
                /\ ev[p].Message = EVENT_OPENED /\ ev[p].Email = pre[p].Email
                /\ added[p] = "ok" => InLog(ev[p])
            /\ op[p] = "HandleClickedLink" =>
                /\ r[p].Status =
                      IF pre[p].Status = EVENT_DATA_SUBMIT
                      THEN pre[p].Status ELSE EVENT_CLICKED
                /\ ev[p].Message = EVENT_CLICKED /\ ev[p].Email = pre[p].Email
                /\ added[p] = "ok" => InLog(ev[p])

C2_Witness ==
    \E p \in Procs :
        /\ Done(p) /\ op[p] = "HandleClickedLink" /\ added[p] = "ok"
        /\ pre[p].Status = EVENT_DATA_SUBMIT
        /\ r[p].Status = EVENT_DATA_SUBMIT
        /\ events[Len(events)].Message = EVENT_CLICKED

\* ------------------------------------------------------------------- C3
\* C3: a MarkReported whose createEvent succeeded leaves the status as it
\* was and the record reported, whether or not it was reported before (and
\* a successful save writes exactly that); each such call whose AddEvent
\* stored its event lengthens the log by one reported event, also when the
\* record was already reported.
C3_ReportedIndependent ==
    [][\A p \in Procs :
        /\ ( /\ EnterStep(p) /\ op'[p] = "HandleEmailReport"
             /\ added'[p] = "ok" )
           => events' = Append(events, [Email |-> r[p].Email,
                                        Message |-> EVENT_REPORTED,
                                        Time |-> now'])
        /\ (FinishStep(p) /\ op[p] = "HandleEmailReport")
           => /\ r'[p].Status = r[p].Status
              /\ r'[p].Reported
              /\ saved'[p] = "ok" =>
                    db'.Reported /\ db'.Status = r[p].Status
      ]_vars

C3_Witness ==
    \E p \in Procs :
        /\ Done(p) /\ op[p] = "HandleEmailReport" /\ saved[p] = "ok"
        /\ pre[p].Reported /\ r[p].Reported /\ db.Reported
        /\ r[p].Status = pre[p].Status
        /\ CountKind(EVENT_REPORTED) = 2

\* ------------------------------------------------------------------- C4
\* The event kind the design assigns to each operation.
KindOf(h) ==
    CASE h = "HandleEmailSent" -> EVENT_SENT
      [] h = "HandleEmailError" -> EVENT_SENDING_ERROR
      [] h = "HandleEmailBackoff" -> EVENT_SENDING_ERROR
      [] h = "HandleEmailOpened" -> EVENT_OPENED
      [] h = "HandleClickedLink" -> EVENT_CLICKED
      [] h = "HandleFormSubmit" -> EVENT_DATA_SUBMIT
      [] h = "HandleEmailReport" -> EVENT_REPORTED

\* The campaign lookup of p's call succeeded: the call got as far as
\* encoding the details.
LookupSucceeded(p) == op[p] # "none" /\ (Created(p) \/ ret[p] = ErrMarshal)

\* C4 as stated: every call whose campaign lookup succeeded has its event
\* in the log.
C4_EveryFoundCallAppends ==
    \A p \in Procs :
        LookupSucceeded(p) =>
            added[p] = "ok" /\ ev[p].Message = KindOf(op[p]) /\ InLog(ev[p])

\* C4 (amended): every call either fails in the campaign lookup or in
\* encoding the details, or reaches AddEvent exactly once; when AddEvent
\* stores the event the log grows by exactly one event of the operation's
\* kind for the record's email, also when the guard then suppresses the
\* status write; in every other step the log is unchanged.
C4_OneEventPerStoredAppend ==
    [][
        /\ \A p \in Procs :
            EnterStep(p) =>
                /\ \/ ret'[p] \in {ErrRecordNotFound, ErrMarshal}
                   \/ added'[p] \in {"ok", "failed"}
                /\ IF added'[p] = "ok"
                   THEN events' = Append(events, [Email |-> r[p].Email,
                                                  Message |-> KindOf(op'[p]),
                                                  Time |-> now'])
                   ELSE events' = events
        /\ (\A p \in Procs : ~EnterStep(p)) => events' = events
      ]_vars

C4_Witness ==
    \E p \in Procs :
        /\ Done(p) /\ op[p] = "HandleEmailOpened" /\ added[p] = "ok"
        /\ pre[p].Status = EVENT_DATA_SUBMIT
        /\ saved[p] = "none" /\ ret[p] = Nil
        /\ events[Len(events)] = ev[p]
        /\ ev[p].Message = EVENT_OPENED

\* ------------------------------------------------------------------- C5
\* C5 as stated: every call that returned success left modified_date equal
\* to the timestamp of the call's event.
C5_SuccessSetsModifiedDate ==
    \A p \in Procs :
        (Done(p) /\ ret[p] = Nil) => r[p].ModifiedDate = ev[p].Time

\* The guard of p's running call suppresses the status write.
Suppressed(p) ==
    \/ op[p] = "HandleEmailOpened" /\ r[p].Status \in {EVENT_CLICKED, EVENT_DATA_SUBMIT}
    \/ op[p] = "HandleClickedLink" /\ r[p].Status = EVENT_DATA_SUBMIT

\* C5 (amended): a call that returns success after writing the record
\* leaves modified_date, in memory and in the saved row, equal to the
\* timestamp of the event createEvent returned to it; a MarkOpened or
\* MarkClicked whose guard suppresses the status write returns success
\* with the record and the row, modified_date included, unchanged.
C5_ModifiedDateUnlessSuppressed ==
    [][\A p \in Procs :
        (FinishStep(p) /\ ret'[p] = Nil) =>
            IF Suppressed(p)
            THEN r'[p] = r[p] /\ db' = db /\ saved'[p] = "none"
            ELSE /\ r'[p].ModifiedDate = ev[p].Time
                 /\ db'.ModifiedDate = ev[p].Time
                 /\ ev[p].Time # ZeroTime
                 /\ added[p] = "ok" => InLog(ev[p])
      ]_vars

C5_Witness ==
    \E p \in Procs :
        /\ Done(p) /\ op[p] = "HandleClickedLink" /\ ret[p] = Nil
        /\ pre[p].Status = EVENT_DATA_SUBMIT
        /\ r[p].ModifiedDate = pre[p].ModifiedDate
        /\ r[p].ModifiedDate # ev[p].Time

\* ------------------------------------------------------------------- C6
\* C6: no MarkOpened or MarkClicked, whatever the interleaving, leaves the
\* persisted status at an earlier funnel stage than the one persisted
\* before it.
C6_PersistedStatusNeverRegresses ==
    [][\A p \in Procs :
        (FinishStep(p) /\ op[p] \in {"HandleEmailOpened", "HandleClickedLink"})
            => ~Earlier(db'.Status, db.Status)
      ]_vars

\* ------------------------------------------------------------------- C7
\* C7: from any prior status, a MarkSendError whose createEvent succeeded
\* sets status to sending-error, a MarkBackoff sets status to retry and
\* send_date to the time it was given, a MarkSent sets status to sent; none
\* of the three returns without issuing the save, and a successful save
\* writes that record to the row.
C7_UnguardedTransitions ==
    [][\A p \in Procs :
        FinishStep(p) =>
            /\ op[p] = "HandleEmailError" =>
                  r'[p].Status = ERROR /\ saved'[p] # "none"
            /\ op[p] = "HandleEmailBackoff" =>
                  /\ r'[p].Status = STATUS_RETRY
                  /\ r'[p].SendDate = arg[p]
                  /\ saved'[p] # "none"
            /\ op[p] = "HandleEmailSent" =>
                  r'[p].Status = EVENT_SENT /\ saved'[p] # "none"
            /\ ( /\ op[p] \in {"HandleEmailError", "HandleEmailBackoff", "HandleEmailSent"}
                 /\ saved'[p] = "ok" )
               => db' = r'[p]
      ]_vars

C7_Witness ==
    \E p \in Procs :
        /\ Done(p) /\ op[p] = "HandleEmailSent" /\ saved[p] = "ok"
        /\ pre[p].Status = STATUS_RETRY /\ pre[p].SendDate \in SendDates
        /\ db.Status = EVENT_SENT
        /\ Len(events) = 3
        /\ events[1].Message = EVENT_SENDING_ERROR
        /\ events[2].Message = EVENT_SENDING_ERROR
        /\ events[3].Message = EVENT_SENT

\* ------------------------------------------------------------------- C8
\* C8: a transition called while the owning campaign is absent returns the
\* lookup's NotFound error in that same step, appends no event, issues no
\* save and leaves the record and the row unchanged.
C8_AbsentCampaignChangesNothing ==
    [][\A p \in Procs :
        (EnterStep(p) /\ ~campaign) =>
            /\ pc'[p] = "done"
            /\ ret'[p] = ErrRecordNotFound
            /\ added'[p] = "none" /\ saved'[p] = "none"
            /\ events' = events
            /\ db' = db
            /\ r'[p] = r[p]
      ]_vars

C8_Witness ==
    \E p \in Procs :
        /\ Done(p) /\ ~campaign /\ ret[p] = ErrRecordNotFound
        /\ op[p] = "HandleFormSubmit"
        /\ pre[p].Status = EVENT_CLICKED /\ r[p] = pre[p] /\ db.Status = EVENT_CLICKED
        /\ Len(events) = 1

\* ------------------------------------------------------------------- C9
\* C9: a call whose AddEvent failed returns an error, leaves the status as
\* it was and issues no save.
C9_FailedAppendAborts ==
    \A p \in Procs :
        (Done(p) /\ added[p] = "failed") =>
            ret[p] # Nil /\ r[p].Status = pre[p].Status /\ saved[p] = "none"

\* ------------------------------------------------------------------ C10
\* C10: when AddEvent stored the event and the save then fails, the call
\* returns the persistence error, the row and the log are left as they
\* were, and the event is still in the log.
C10_SaveFailureKeepsEvent ==
    [][\A p \in Procs :
        (FinishStep(p) /\ added[p] = "ok" /\ saved'[p] = "failed") =>
            /\ ret'[p] = ErrSave
            /\ db' = db
            /\ events' = events
            /\ \E i \in 1..Len(events') : events'[i] = ev[p]
      ]_vars

C10_Witness ==
    \E p \in Procs :
        /\ Done(p) /\ op[p] = "HandleFormSubmit" /\ added[p] = "ok"
        /\ saved[p] = "failed" /\ ret[p] = ErrSave
        /\ r[p].Status = EVENT_DATA_SUBMIT
        /\ db.Status # EVENT_DATA_SUBMIT
        /\ events[Len(events)].Message = EVENT_DATA_SUBMIT

\* ------------------------------------------------------------------ C11
\* GenerateId has returned success to p and the row is not yet inserted.
Generated(p) == pc[p] = "done" /\ op[p] = "GenerateId" /\ ret[p] = Nil

C12_GenerateIdTerminates ==
    \A p \in Procs : (pc[p] = "GenerateId") ~> (pc[p] = "done")

\* ------------------------------------------------------------------ C13
\* C13: when GenerateId returns success, r.RId is the candidate of its last
\* query, that query answered not-found and no row has the identifier at
\* that moment, and the identifier is 7 characters of the 62-symbol
\* alphabet.
C13_ReturnedIdWasFree ==
    [][\A p \in Procs :
        (pc[p] # "done" /\ Generated(p)') =>
            /\ r'[p].RId = gen'[p].cand
            /\ gen'[p].answer = ErrRecordNotFound
            /\ \A i \in 1..Len(rids) : rids[i] # r'[p].RId
            /\ Len(r'[p].RId) = 7
            /\ \A i \in 1..7 : \E j \in 1..62 : r'[p].RId[i] = alphaNum[j]
            /\ Len(alphaNum) = 62
            /\ Cardinality({alphaNum[j] : j \in 1..62}) = 62
      ]_vars

C13_Witness ==
    \E p \in Procs :
        /\ Generated(p)
        /\ r[p].RId = <<"a", "A", "0", "b", "B", "1", "9">>
        /\ Len(rids) = 2
        /\ rids[2] = <<"9", "9", "9", "9", "9", "9", "9">>

\* ------------------------------------------------------------------ C14
\* UpdateGeo has opened the dataset and looked addr up in this step.
LookedUp(p, addr) ==
    /\ pc[p] = "ready"
    /\ op'[p] = "UpdateGeo"
    /\ geo'[p].addr = addr
    /\ geo'[p].open = "ok"

\* C14: UpdateGeo with a string that is not an IP address (the dataset
\* having opened) returns an error at the lookup: the Result in memory and
\* the row keep their ip, latitude and longitude, and no save is issued.
C14_UnparsableAddressChangesNothing ==
    [][\A p \in Procs :
        /\ LookedUp(p, BadAddr) =>
              /\ pc'[p] = "done"
              /\ ret'[p] # Nil
              /\ r'[p] = r[p]
              /\ db' = db
              /\ saved'[p] = "none"
        /\ pc[p] = "UpdateGeo" => geo[p].addr # BadAddr
      ]_vars

\* The call failed on a Result that already had coordinates.
C14_Witness ==
    \E p \in Procs :
        /\ pc[p] = "done" /\ op[p] = "UpdateGeo"
        /\ geo[p].addr = BadAddr /\ geo[p].open = "ok"
        /\ ret[p] = ErrNilIP
        /\ r[p].IP = KnownAddr /\ r[p].Latitude = 37 /\ r[p].Longitude = -122
        /\ db.IP = KnownAddr /\ db.Latitude = 37 /\ db.Longitude = -122

\* ------------------------------------------------------------------ C15
\* C15: an UpdateGeo that found no record for a valid address has returned
\* an error, has left the Result's ip, latitude and longitude as they were
\* and has issued no save.
C15_NoRecordFails ==
    \A p \in Procs :
        (/\ pc[p] = "done" /\ op[p] = "UpdateGeo"
         /\ geo[p].addr = UnknownAddr /\ geo[p].open = "ok") =>
            /\ ret[p] # Nil
            /\ r[p].IP = pre[p].IP
            /\ r[p].Latitude = pre[p].Latitude
            /\ r[p].Longitude = pre[p].Longitude
            /\ saved[p] = "none"

\* ------------------------------------------------------------------ C16
\* C16: an UpdateGeo that could not open the dataset has returned an error
\* to its caller, with the Result as it was.
C16_UnavailableDatasetReturnsError ==
    \A p \in Procs :
        geo[p].open = "failed" =>
            /\ pc[p] = "done"
            /\ ret[p] # Nil
            /\ r[p] = pre[p]

\* ------------------------------------------------------------------ C17
\* C17: a successful UpdateGeo persists the address and the looked-up
\* coordinates, and the row's status, reported, send_date and modified_date
\* are after its save what they were before it.
C17_GeoSaveKeepsStatusFields ==
    [][\A p \in Procs :
        (pc[p] = "UpdateGeo" /\ pc'[p] = "done" /\ saved'[p] = "ok") =>
            /\ db'.IP = geo[p].addr
            /\ db'.Latitude = geo[p].city.Latitude
            /\ db'.Longitude = geo[p].city.Longitude
            /\ db'.Status = db.Status
            /\ db'.Reported = db.Reported
            /\ db'.SendDate = db.SendDate
            /\ db'.ModifiedDate = db.ModifiedDate
      ]_vars

\* ------------------------------------------------------------------ C18
\* C18: the status of the row and of every loaded Result is one of queued,
\* sent, sending-error, retry, opened, clicked, submitted-data and never
\* the event kind reported; the event of a HandleEmailError or
\* HandleEmailBackoff call is of kind sending-error, and once the call has
\* got to its save the Result's status is sending-error, respectively
\* retry.
C18_StatusInEnum ==
    /\ db.Status \in {"queued", "sent", "sending-error", "retry", "opened",
                      "clicked", "submitted-data"}
    /\ db.Status # EVENT_REPORTED
    /\ \A p \in Procs :
          /\ pc[p] # "idle" =>
                /\ r[p].Status \in {"queued", "sent", "sending-error", "retry",
                                    "opened", "clicked", "submitted-data"}
                /\ r[p].Status # EVENT_REPORTED
          /\ (op[p] \in {"HandleEmailError", "HandleEmailBackoff"} /\ Created(p)) =>
                ev[p].Message = "sending-error"
          /\ (op[p] = "HandleEmailError" /\ saved[p] # "none") =>
                r[p].Status = "sending-error"
          /\ (op[p] = "HandleEmailBackoff" /\ saved[p] # "none") =>
                r[p].Status = "retry"
          /\ (op[p] = "HandleEmailReport" /\ saved[p] # "none") =>
                r[p].Status = pre[p].Status

\* A backoff saved on a record already reported.
C18_Witness ==
    \E p \in Procs :
        /\ Done(p) /\ op[p] = "HandleEmailBackoff" /\ saved[p] = "ok"
        /\ db.Status = STATUS_RETRY
        /\ db.Reported
        /\ InLog(ev[p]) /\ ev[p].Message = EVENT_SENDING_ERROR
        /\ CountKind(EVENT_REPORTED) = 1

\* ------------------------------------------------------------------ C19
\* C19: once the row has reported = true, no step makes it false again.
C19_ReportedMonotonic ==
    [][db.Reported => db'.Reported]_vars

\* ------------------------------------------------------------------ C20
\* C20: the log is never behind the row: a row with status sent, opened,
\* clicked or submitted-data has an event of that kind for its email in the
\* log, a row with status sending-error or retry has a sending-error event,
\* and a row with reported = true has a reported event.
C20_LogAheadOfRecord ==
    /\ db.Status \in {EVENT_SENT, EVENT_OPENED, EVENT_CLICKED, EVENT_DATA_SUBMIT} =>
          \E i \in 1..Len(events) :
              events[i].Message = db.Status /\ events[i].Email = db.Email
    /\ db.Status \in {ERROR, STATUS_RETRY} =>
          \E i \in 1..Len(events) :
              events[i].Message = EVENT_SENDING_ERROR /\ events[i].Email = db.Email
    /\ db.Reported =>
          \E i \in 1..Len(events) :
              events[i].Message = EVENT_REPORTED /\ events[i].Email = db.Email

TypeOK ==
    /\ db \in Result
    /\ \A p \in Procs : r[p] \in Result
    /\ \A i \in 1..Len(rids) : rids[i] \in AllIds
====
